---- MODULE Spec2Model ----
(***************************************************************************)
(* Session / authentication core of zotion: the AuthController handlers    *)
(* (Login, Logout, Register, ValidateSession) over the user table and the  *)
(* session table.                                                          *)
(*                                                                         *)
(* Every handler runs in its own request worker.  Login performs two       *)
(* separate service calls (AuthService.Login, then SessionService.Create)  *)
(* and is therefore two steps that interleave with other requests; the     *)
(* other handlers make one datastore call and are one step each.  Workers  *)
(* are interchangeable, so the Logins in flight are kept as a set.         *)
(***************************************************************************)
EXTENDS Integers, FiniteSets, Sequences, TLC

\* ---------------------------------------------------------------- bounds
MaxUsers == 2
MaxSessions == 2
MaxTime == 2
NumWorkers == 2
\* rows in the resource's access list, and group roles on its space
MaxAclEntries == 1
MaxSpaceRoles == 1

\* config.Session.Expire, in clock units (auth_controller.go:49)
Expire == 1

\* the empty string held by a request local (auth_controller.go:133,140)
EmptyId == 0

UserIds == 1..MaxUsers
SessionIds == 1..MaxSessions
Names == {"a", "b"}
Passwords == {"p", "q"}
\* a well-formed session id that no login ever generated
UnknownSessionId == MaxSessions + 1

VARIABLES
    users,      \* rows of table user
    sessions,   \* rows of table session
    now,        \* the wall clock read by time.Now()
    pending,    \* the Login requests in flight, between their two steps
    last,       \* the response a handler has written, until its client reads it
    tokens,     \* history: tokens signed by AuthService.Login
    returned,   \* history: tokens delivered in a 200 response of Login
    created,    \* history: session ids whose SessionService.Create succeeded
    deleted,    \* history: created session ids whose SessionService.Delete succeeded
    removed,    \* history: ids of the users that were deleted
    rules,      \* the tables the RBAC resolver reads, for one resource
    decision,   \* the last answer of Authorize, with the question
    req         \* the request to a protected route that is in flight

\* what the handlers of AuthController leave alone
gateVars == <<rules, decision, req>>

vars == <<users, sessions, now, pending, last, tokens, returned, created,
          deleted, removed, gateVars>>

\* ------------------------------------------------------------- helpers
\* the salted one-way hash kept in user.password
Hash(pw) == <<"hash", pw>>

Min(S) == CHOOSE x \in S : \A y \in S : x <= y

Ids(rows) == {r.id : r \in rows}

Generated == {t.session_id : t \in tokens}

\* utils.UUIDv4(): an id no row and no token carries yet.  Ids are opaque, so
\* the least unused one stands for any fresh one; EmptyId once the pool of the
\* model is used up, which stops the request that needs one.
Fresh(pool, used) == IF pool \subseteq used THEN EmptyId ELSE Min(pool \ used)

\* the id a new user row gets; the id of a deleted user is not used again
NewUserId == Fresh(UserIds, Ids(users) \cup removed)

\* no response is on its way to a client
NoResponse == [op |-> "none", status |-> 0, error |-> "", sid |-> EmptyId,
               uid |-> EmptyId, ident |-> "", pw |-> "", dbOk |-> TRUE,
               prior |-> FALSE]

\* a response as the caller observes it, with the request it answers
Response(op, status, error, sid, uid, ident, pw, dbOk, prior) ==
    [op |-> op, status |-> status, error |-> error,
     sid |-> sid, uid |-> uid, ident |-> ident, pw |-> pw,
     dbOk |-> dbOk, prior |-> prior]

\* ------------------------------------------------------ user repository
\* SELECT ... WHERE email = ? OR username = ? ORDER BY id LIMIT 1
GetByEmailOrUsername(emailOrUsername) ==
    LET found == {u \in users : u.email = emailOrUsername
                                \/ u.username = emailOrUsername}
    IN  IF found = {} THEN [err |-> TRUE, user |-> [id |-> EmptyId]]
        ELSE [err |-> FALSE,
              user |-> CHOOSE u \in found : u.id = Min(Ids(found))]

\* the unique constraints of table user
UserConstraintViolated(user) ==
    \E u \in users : u.id = user.id \/ u.email = user.email
                     \/ u.username = user.username

\* INSERT INTO user
UserRepositoryCreate(user) ==
    IF UserConstraintViolated(user)
    THEN [err |-> TRUE, users |-> users]
    ELSE [err |-> FALSE, users |-> users \cup {user}]

\* userRepository.Delete without the cascade to table session
UserRepositoryDeleteKeepsSessions(id) ==
    [users |-> {u \in users : u.id # id}, sessions |-> sessions]

\* DELETE FROM user WHERE id = ?; the session rows that reference the user go
\* with it (FOREIGN KEY (user_id) REFERENCES user(id) ON DELETE CASCADE)
UserRepositoryDelete(id) ==
    [users |-> {u \in users : u.id # id},
     sessions |-> {r \in sessions : r.user_id # id}]

\* --------------------------------------------------------- auth service
\* AuthService.Login: credential check, fresh session id, signed token
AuthServiceLogin(ident, pw, newSid) ==
    LET q == GetByEmailOrUsername(ident)
    IN  IF q.err \/ q.user.password # Hash(pw)
        THEN [err |-> TRUE]
        ELSE [err |-> FALSE,
              UserId |-> q.user.id,
              SessionId |-> newSid,
              Token |-> [user_id |-> q.user.id, session_id |-> newSid]]

\* the e-mail of a registration whose body parses but whose e-mail is empty
EmptyEmail == ""

\* AuthService.Register: reject malformed fields (InvalidInput), hash the
\* password, insert the user (Conflict on a duplicate identifier)
AuthServiceRegister(email, uname, pw, newUid) ==
    IF email = EmptyEmail
    THEN [err |-> TRUE, kind |-> "InvalidInput", users |-> users]
    ELSE LET r == UserRepositoryCreate([id |-> newUid, email |-> email,
                                        username |-> uname,
                                        password |-> Hash(pw)])
         IN  [err |-> r.err,
              kind |-> IF r.err THEN "Conflict" ELSE "",
              users |-> r.users]

\* ------------------------------------------------------ session service
\* INSERT INTO session: primary key id, foreign key user_id
SessionServiceCreate(session, dbOk) ==
    IF \/ ~dbOk
       \/ session.id \in Ids(sessions)
       \/ session.user_id \notin Ids(users)
    THEN [err |-> TRUE, sessions |-> sessions]
    ELSE [err |-> FALSE,
          sessions |-> sessions \cup
              {[id |-> session.id, user_id |-> session.user_id,
                expires_at |-> session.expires_at,
                built_at |-> session.built_at,
                created_at |-> now]}]

SessionServiceGetById(id, dbOk) ==
    LET found == {r \in sessions : r.id = id}
    IN  IF ~dbOk \/ found = {} THEN [err |-> TRUE]
        ELSE [err |-> FALSE, session |-> CHOOSE r \in found : TRUE]

\* DELETE FROM session WHERE id = ?
SessionServiceDelete(id, dbOk) ==
    IF ~dbOk THEN [err |-> TRUE, sessions |-> sessions]
    ELSE [err |-> FALSE, sessions |-> {r \in sessions : r.id # id}]

IsSessionExpired(expiresAt) == now >= expiresAt

\* Login, lines 44-49, with loginResponse.SessionId stored as the owner
NewSessionOwnedBySessionId(loginResponse) ==
    [id |-> loginResponse.SessionId,
     user_id |-> loginResponse.SessionId,
     expires_at |-> now + Expire,
     built_at |-> now]

\* Login, lines 44-49, with the session TTL left out of line 49
NewSessionWithoutTtl(loginResponse) ==
    [id |-> loginResponse.SessionId,
     user_id |-> loginResponse.UserId,
     expires_at |-> now,
     built_at |-> now]

\* Login, lines 44-49: the session built from the login response.  built_at
\* is bookkeeping, the value time.Now() returned at line 49; the informational
\* user_agent and ip_address are left out.
NewSession(loginResponse) ==
    [id |-> loginResponse.SessionId,
     user_id |-> loginResponse.UserId,
     expires_at |-> now + Expire,
     built_at |-> now]

\* ----------------------------------------------------------------- RBAC
RoleAdmin == "admin"
RoleUser == "user"
RoleGuest == "guest"
RoleType == {RoleAdmin, RoleUser, RoleGuest}

\* the actions a request asks for: read-class, write-class, and the rest
Actions == {"read", "write", "delete"}

\* no group, no membership, no rule, no resource
NoRules == [groups |-> {}, user_group |-> {}, acl |-> {}, spaceRoles |-> {},
            assoc |-> {}, exists |-> FALSE]

\* GetGroupsByUserId joining no membership: every group for every user
GetGroupsByUserIdOfAnyUser(id) == rules.groups

\* SELECT id, role FROM group JOIN user_group ON user_group.group_id = id
\* WHERE user_group.user_id = ?
GetGroupsByUserId(id) ==
    {g \in rules.groups : <<id, g.id>> \in rules.user_group}

\* what a role lets through where it applies
RoleAllows(role, action) ==
    CASE role = RoleAdmin -> TRUE
      [] role = RoleUser -> action \in {"read", "write"}
      [] role = RoleGuest -> action = "read"
      [] OTHER -> FALSE

\* the role default of a group: a user group counts only for a resource it
\* is associated with
RoleDefaultAllows(group, action) ==
    /\ RoleAllows(group.role, action)
    /\ group.role = RoleUser => group.id \in rules.assoc

\* Authorize with the role default of an admin group tested first
AuthorizeAdminFirst(principal, action) ==
    LET groups == GetGroupsByUserId(principal)
        direct == {e \in rules.acl : /\ e.principal = principal
                                     /\ e.action = action}
        space == {e \in rules.spaceRoles : e.group_id \in Ids(groups)}
    IN  IF ~rules.exists
        THEN [allow |-> FALSE, reason |-> "ResourceNotFound"]
        ELSE IF \E g \in groups : g.role = RoleAdmin
        THEN [allow |-> TRUE, reason |-> "role"]
        ELSE IF direct # {}
        THEN [allow |-> \A e \in direct : e.effect = "allow",
              reason |-> "acl"]
        ELSE IF space # {}
        THEN [allow |-> \E e \in space : RoleAllows(e.role, action),
              reason |-> "space"]
        ELSE IF groups # {}
        THEN [allow |-> \E g \in groups : RoleDefaultAllows(g, action),
              reason |-> "role"]
        ELSE [allow |-> FALSE, reason |-> "default"]

\* Authorize(principal, resourceType, resourceId, action) for the resource of
\* rules: the first tier with a matching rule decides, and within a tier the
\* most permissive rule
Authorize(principal, action) ==
    LET groups == GetGroupsByUserId(principal)
        direct == {e \in rules.acl : /\ e.principal = principal
                                     /\ e.action = action}
        space == {e \in rules.spaceRoles : e.group_id \in Ids(groups)}
    IN  IF ~rules.exists
        THEN [allow |-> FALSE, reason |-> "ResourceNotFound"]
        ELSE IF direct # {}
        THEN [allow |-> \A e \in direct : e.effect = "allow",
              reason |-> "acl"]
        ELSE IF space # {}
        THEN [allow |-> \E e \in space : RoleAllows(e.role, action),
              reason |-> "space"]
        ELSE IF groups # {}
        THEN [allow |-> \E g \in groups : RoleDefaultAllows(g, action),
              reason |-> "role"]
        ELSE [allow |-> FALSE, reason |-> "default"]

\* Authorize has not been asked
NoDecision == [principal |-> EmptyId, action |-> "", allow |-> FALSE,
               reason |-> ""]

\* Authorize is asked about (principal, action) on the resource
Authorizes(principal, action) ==
    /\ decision' = [principal |-> principal, action |-> action,
                    allow |-> Authorize(principal, action).allow,
                    reason |-> Authorize(principal, action).reason]
    /\ UNCHANGED <<users, sessions, now, pending, last, tokens, returned,
                   created, deleted, removed, rules, req>>

\* ------------------------------------------------------ protected routes
\* the handlers of the /me routes in the order NewMeRouter registers them,
\* for the wrong order: the RBAC gate ahead of the session validator
ProtectedChainRbacFirst == <<"rbacMiddleware", "JwtAuthMiddleware", "handler">>

\* the handlers of the /me routes in the order NewMeRouter registers them:
\* Group(path, JwtAuthMiddleware(...), rbacMiddleware), then the route
ProtectedChain == <<"JwtAuthMiddleware", "rbacMiddleware", "handler">>

\* ctx.Locals before the validator has attached anything
NoLocals == [user_id |-> EmptyId, session_id |-> EmptyId]

\* a request without a bearer token
NoToken == [kind |-> "none", user_id |-> EmptyId, session_id |-> EmptyId]

\* no request to a protected route is in flight
NoRequest == [at |-> 0, token |-> NoToken, action |-> "", locals |-> NoLocals,
              ran |-> <<>>, status |-> 0]

\* --------------------------------------------------------------- Init
Init ==
    /\ users = {}
    /\ sessions = {}
    /\ now = 0
    /\ pending = {}
    /\ last = NoResponse
    /\ tokens = {}
    /\ returned = {}
    /\ created = {}
    /\ deleted = {}
    /\ removed = {}
    /\ rules = NoRules
    /\ decision = NoDecision
    /\ req = NoRequest

\* ------------------------------------------------------------- actions
\* a request is served once the previous response has left: each response is
\* observed in the state its handler produced
Ready == last = NoResponse

\* the client reads the response
ResponseSent ==
    /\ last # NoResponse
    /\ last' = NoResponse
    /\ UNCHANGED <<users, sessions, now, pending, tokens, returned, created, deleted, removed, gateVars>>

Tick ==
    /\ Ready
    /\ now < MaxTime
    /\ now' = now + 1
    /\ UNCHANGED <<users, sessions, pending, last, tokens, returned, created, deleted, removed, gateVars>>

\* Login writing a session row for the user it looked up before it tests the
\* error of AuthService.Login
LoginAuthenticateCreatesBeforeCheck(parseOk, ident, pw) ==
    /\ Ready
    /\ IF ~parseOk
       THEN /\ last' = Response("login", 400, "Invalid request", EmptyId,
                                EmptyId, "", "", TRUE, FALSE)
            /\ UNCHANGED <<pending, tokens, sessions>>
       ELSE LET r == AuthServiceLogin(ident, pw, Fresh(SessionIds, Generated))
                q == GetByEmailOrUsername(ident)
            IN  IF r.err
                THEN /\ last' = Response("login", 401, "Invalid credentials",
                                         EmptyId, EmptyId, ident, pw, TRUE,
                                         FALSE)
                     /\ sessions' =
                            IF q.err \/ Fresh(SessionIds, Generated) = EmptyId
                            THEN sessions
                            ELSE sessions \cup
                                 {[id |-> Fresh(SessionIds, Generated),
                                   user_id |-> q.user.id,
                                   expires_at |-> now + Expire,
                                   built_at |-> now, created_at |-> now]}
                     /\ UNCHANGED <<pending, tokens>>
                ELSE /\ r.SessionId # EmptyId
                     /\ Cardinality(pending) < NumWorkers
                     /\ pending' = pending \cup
                            {[ident |-> ident, pw |-> pw,
                              loginResponse |-> r,
                              session |-> NewSession(r)]}
                     /\ tokens' = tokens \cup {r.Token}
                     /\ UNCHANGED <<last, sessions>>
    /\ UNCHANGED <<users, now, returned, created, deleted, removed, gateVars>>

\* Login answering 404 "User not found" when the identifier matches no user
LoginAuthenticateRevealsMissingUser(parseOk, ident, pw) ==
    /\ Ready
    /\ IF ~parseOk
       THEN /\ last' = Response("login", 400, "Invalid request", EmptyId,
                                EmptyId, "", "", TRUE, FALSE)
            /\ UNCHANGED <<pending, tokens>>
       ELSE LET r == AuthServiceLogin(ident, pw, Fresh(SessionIds, Generated))
            IN  IF r.err
                THEN /\ last' = IF GetByEmailOrUsername(ident).err
                                THEN Response("login", 404, "User not found",
                                              EmptyId, EmptyId, ident, pw,
                                              TRUE, FALSE)
                                ELSE Response("login", 401,
                                              "Invalid credentials", EmptyId,
                                              EmptyId, ident, pw, TRUE, FALSE)
                     /\ UNCHANGED <<pending, tokens>>
                ELSE /\ r.SessionId # EmptyId
                     /\ Cardinality(pending) < NumWorkers
                     /\ pending' = pending \cup
                            {[ident |-> ident, pw |-> pw,
                              loginResponse |-> r,
                              session |-> NewSession(r)]}
                     /\ tokens' = tokens \cup {r.Token}
                     /\ UNCHANGED last
    /\ UNCHANGED <<users, sessions, now, returned, created, deleted, removed, gateVars>>

\* Login, lines 28-49: parse, AuthService.Login, build the session; newSid is
\* the session id that AuthService.Login generates
LoginAuthenticateWith(parseOk, ident, pw, newSid) ==
    /\ Ready
    /\ IF ~parseOk
       THEN /\ last' = Response("login", 400, "Invalid request", EmptyId,
                                EmptyId, "", "", TRUE, FALSE)
            /\ UNCHANGED <<pending, tokens>>
       ELSE LET r == AuthServiceLogin(ident, pw, newSid)
            IN  IF r.err
                THEN /\ last' = Response("login", 401, "Invalid credentials",
                                         EmptyId, EmptyId, ident, pw, TRUE,
                                         FALSE)
                     /\ UNCHANGED <<pending, tokens>>
                ELSE /\ r.SessionId # EmptyId
                     /\ Cardinality(pending) < NumWorkers
                     /\ pending' = pending \cup
                            {[ident |-> ident, pw |-> pw,
                              loginResponse |-> r,
                              session |-> NewSession(r)]}
                     /\ tokens' = tokens \cup {r.Token}
                     /\ UNCHANGED last
    /\ UNCHANGED <<users, sessions, now, returned, created, deleted, removed, gateVars>>

\* Login with a session id that no login generated before
LoginAuthenticate(parseOk, ident, pw) ==
    LoginAuthenticateWith(parseOk, ident, pw, Fresh(SessionIds, Generated))

\* Login when the generated session id is the id of a persisted session
LoginAuthenticateCollides(ident, pw, sid) ==
    /\ sid \in Ids(sessions)
    /\ LoginAuthenticateWith(TRUE, ident, pw, sid)

\* Login answering 200 with the login response although Create failed
LoginCreateSessionIgnoresError(p, dbOk) ==
    /\ Ready
    /\ p \in pending
    /\ LET r == SessionServiceCreate(p.session, dbOk)
           lr == p.loginResponse
       IN  /\ sessions' = r.sessions
           /\ last' = Response("login", 200, "", lr.SessionId, lr.UserId,
                               p.ident, p.pw, dbOk, FALSE)
           /\ returned' = returned \cup {lr.Token}
           /\ created' = IF r.err THEN created
                         ELSE created \cup {lr.SessionId}
    /\ pending' = pending \ {p}
    /\ UNCHANGED <<users, now, tokens, deleted, removed, gateVars>>

\* Login keeping one session per user: the user's older rows are dropped
LoginCreateSessionSinglePerUser(p, dbOk) ==
    /\ Ready
    /\ p \in pending
    /\ LET r == SessionServiceCreate(p.session, dbOk)
           lr == p.loginResponse
       IN  IF r.err
           THEN /\ last' = Response("login", 500, "Internal server error",
                                    lr.SessionId, lr.UserId, p.ident,
                                    p.pw, dbOk, FALSE)
                /\ UNCHANGED <<sessions, returned, created>>
           ELSE /\ sessions' = {x \in r.sessions :
                                   x.user_id = lr.UserId => x.id = lr.SessionId}
                /\ last' = Response("login", 200, "", lr.SessionId, lr.UserId,
                                    p.ident, p.pw, dbOk, FALSE)
                /\ returned' = returned \cup {lr.Token}
                /\ created' = created \cup {lr.SessionId}
    /\ pending' = pending \ {p}
    /\ UNCHANGED <<users, now, tokens, deleted, removed, gateVars>>

\* Login renewing the user's earlier sessions: a successful insert moves
\* the expires_at of the user's other rows to that of the new row
LoginCreateSessionRenewsOthers(p, dbOk) ==
    /\ Ready
    /\ p \in pending
    /\ LET r == SessionServiceCreate(p.session, dbOk)
           lr == p.loginResponse
       IN  IF r.err
           THEN /\ last' = Response("login", 500, "Internal server error",
                                    lr.SessionId, lr.UserId, p.ident,
                                    p.pw, dbOk, FALSE)
                /\ UNCHANGED <<sessions, returned, created>>
           ELSE /\ sessions' =
                      {IF q.user_id = p.session.user_id
                       THEN [q EXCEPT !.expires_at = p.session.expires_at]
                       ELSE q : q \in r.sessions}
                /\ last' = Response("login", 200, "", lr.SessionId, lr.UserId,
                                    p.ident, p.pw, dbOk, FALSE)
                /\ returned' = returned \cup {lr.Token}
                /\ created' = created \cup {lr.SessionId}
    /\ pending' = pending \ {p}
    /\ UNCHANGED <<users, now, tokens, deleted, removed, gateVars>>

\* Login, lines 51-59: SessionService.Create, then the response
LoginCreateSession(p, dbOk) ==
    /\ Ready
    /\ p \in pending
    /\ LET r == SessionServiceCreate(p.session, dbOk)
           lr == p.loginResponse
       IN  IF r.err
           THEN /\ last' = Response("login", 500, "Internal server error",
                                    lr.SessionId, lr.UserId, p.ident,
                                    p.pw, dbOk, FALSE)
                /\ UNCHANGED <<sessions, returned, created>>
           ELSE /\ sessions' = r.sessions
                /\ last' = Response("login", 200, "", lr.SessionId, lr.UserId,
                                    p.ident, p.pw, dbOk, FALSE)
                /\ returned' = returned \cup {lr.Token}
                /\ created' = created \cup {lr.SessionId}
    /\ pending' = pending \ {p}
    /\ UNCHANGED <<users, now, tokens, deleted, removed, gateVars>>

\* Logout with the user id handed to SessionService.Delete
LogoutDeletesByUserId(sessionId, userId, dbOk) ==
    LET r == SessionServiceDelete(userId, dbOk)
    IN  /\ Ready
        /\ IF r.err
           THEN /\ last' = Response("logout", 500, "Internal server error",
                                    sessionId, EmptyId, "", "", dbOk,
                                    sessionId \in deleted)
                /\ UNCHANGED <<sessions, deleted>>
           ELSE /\ sessions' = r.sessions
                /\ deleted' = deleted \cup ({sessionId} \cap created)
                /\ last' = Response("logout", 200, "", sessionId, EmptyId,
                                    "", "", dbOk, sessionId \in deleted)
        /\ UNCHANGED <<users, now, pending, tokens, returned, created, removed, gateVars>>

\* Logout answering 500 when the session id has no row
LogoutRejectsMissingRow(sessionId, userId, dbOk) ==
    LET r == SessionServiceDelete(sessionId, dbOk)
    IN  /\ Ready
        /\ IF r.err \/ sessionId \notin Ids(sessions)
           THEN /\ last' = Response("logout", 500, "Internal server error",
                                    sessionId, EmptyId, "", "", dbOk,
                                    sessionId \in deleted)
                /\ UNCHANGED <<sessions, deleted>>
           ELSE /\ sessions' = r.sessions
                /\ deleted' = deleted \cup ({sessionId} \cap created)
                /\ last' = Response("logout", 200, "", sessionId, EmptyId,
                                    "", "", dbOk, sessionId \in deleted)
        /\ UNCHANGED <<users, now, pending, tokens, returned, created, removed, gateVars>>

\* Logout ending every session of the request's user
LogoutDeletesUserSessions(sessionId, userId, dbOk) ==
    LET r == SessionServiceDelete(sessionId, dbOk)
    IN  /\ Ready
        /\ IF r.err
           THEN /\ last' = Response("logout", 500, "Internal server error",
                                    sessionId, EmptyId, "", "", dbOk,
                                    sessionId \in deleted)
                /\ UNCHANGED <<sessions, deleted>>
           ELSE /\ sessions' = {x \in r.sessions : x.user_id # userId}
                /\ deleted' = deleted \cup ({sessionId} \cap created)
                /\ last' = Response("logout", 200, "", sessionId, EmptyId,
                                    "", "", dbOk, sessionId \in deleted)
        /\ UNCHANGED <<users, now, pending, tokens, returned, created, removed, gateVars>>

\* Logout, lines 71-87; the user id is only logged.  prior: whether an earlier
\* Logout already deleted this session id
Logout(sessionId, userId, dbOk) ==
    LET r == SessionServiceDelete(sessionId, dbOk)
    IN  /\ Ready
        /\ IF r.err
           THEN /\ last' = Response("logout", 500, "Internal server error",
                                    sessionId, EmptyId, "", "", dbOk,
                                    sessionId \in deleted)
                /\ UNCHANGED <<sessions, deleted>>
           ELSE /\ sessions' = r.sessions
                /\ deleted' = deleted \cup ({sessionId} \cap created)
                /\ last' = Response("logout", 200, "", sessionId, EmptyId,
                                    "", "", dbOk, sessionId \in deleted)
        /\ UNCHANGED <<users, now, pending, tokens, returned, created, removed, gateVars>>

\* Register answering 201 whatever AuthService.Register returned
RegisterIgnoresError(parseOk, email, uname, pw) ==
    /\ Ready
    /\ IF ~parseOk
       THEN /\ last' = Response("register", 400, "Invalid request", EmptyId,
                                EmptyId, "", "", TRUE, FALSE)
            /\ UNCHANGED users
       ELSE LET r == AuthServiceRegister(email, uname, pw, NewUserId)
            IN  /\ ~r.err => NewUserId # EmptyId
                /\ users' = r.users
                /\ last' = Response("register", 201, "", EmptyId,
                                    NewUserId, email,
                                    pw, TRUE, FALSE)
    /\ UNCHANGED <<sessions, now, pending, tokens, returned, created, deleted, removed, gateVars>>

\* Register, lines 100-117
Register(parseOk, email, uname, pw) ==
    /\ Ready
    /\ IF ~parseOk
       THEN /\ last' = Response("register", 400, "Invalid request", EmptyId,
                                EmptyId, "", "", TRUE, FALSE)
            /\ UNCHANGED users
       ELSE LET r == AuthServiceRegister(email, uname, pw, NewUserId)
            IN  IF r.err
                THEN /\ last' = Response("register", 409,
                                         "User already exists", EmptyId,
                                         EmptyId, email, pw, TRUE, FALSE)
                     /\ UNCHANGED users
                ELSE /\ NewUserId # EmptyId
                     /\ users' = r.users
                     /\ last' = Response("register", 201, "", EmptyId,
                                         NewUserId, email,
                                         pw, TRUE, FALSE)
    /\ UNCHANGED <<sessions, now, pending, tokens, returned, created, deleted, removed, gateVars>>

\* ValidateSession without the ownership comparison of line 153
ValidateOutcomeNoOwnerCheck(sessionId, userId, dbOk) ==
    IF sessionId = EmptyId THEN [status |-> 401, error |-> "Invalid session"]
    ELSE IF userId = EmptyId THEN [status |-> 401, error |-> "Invalid session"]
    ELSE LET r == SessionServiceGetById(sessionId, dbOk)
         IN  IF r.err THEN [status |-> 404, error |-> "Session not found"]
             ELSE IF IsSessionExpired(r.session.expires_at)
                  THEN [status |-> 401, error |-> "Session expired"]
             ELSE [status |-> 200, error |-> ""]

\* ValidateSession without the expiry test of line 158
ValidateOutcomeNoExpiryCheck(sessionId, userId, dbOk) ==
    IF sessionId = EmptyId THEN [status |-> 401, error |-> "Invalid session"]
    ELSE IF userId = EmptyId THEN [status |-> 401, error |-> "Invalid session"]
    ELSE LET r == SessionServiceGetById(sessionId, dbOk)
         IN  IF r.err THEN [status |-> 404, error |-> "Session not found"]
             ELSE IF r.session.user_id # userId
                  THEN [status |-> 401, error |-> "Invalid session"]
             ELSE [status |-> 200, error |-> ""]

\* ValidateSession answering for an expired row as for a missing one
ValidateOutcomeExpiredAsMissing(sessionId, userId, dbOk) ==
    IF sessionId = EmptyId THEN [status |-> 401, error |-> "Invalid session"]
    ELSE IF userId = EmptyId THEN [status |-> 401, error |-> "Invalid session"]
    ELSE LET r == SessionServiceGetById(sessionId, dbOk)
         IN  IF r.err THEN [status |-> 404, error |-> "Session not found"]
             ELSE IF r.session.user_id # userId
                  THEN [status |-> 401, error |-> "Invalid session"]
             ELSE IF IsSessionExpired(r.session.expires_at)
                  THEN [status |-> 404, error |-> "Session not found"]
             ELSE [status |-> 200, error |-> ""]

\* ValidateSession with the expiry test of line 158 ahead of the ownership
\* comparison of line 153
ValidateOutcomeExpiryBeforeOwner(sessionId, userId, dbOk) ==
    IF sessionId = EmptyId THEN [status |-> 401, error |-> "Invalid session"]
    ELSE IF userId = EmptyId THEN [status |-> 401, error |-> "Invalid session"]
    ELSE LET r == SessionServiceGetById(sessionId, dbOk)
         IN  IF r.err THEN [status |-> 404, error |-> "Session not found"]
             ELSE IF IsSessionExpired(r.session.expires_at)
                  THEN [status |-> 401, error |-> "Session expired"]
             ELSE IF r.session.user_id # userId
                  THEN [status |-> 401, error |-> "Invalid session"]
             ELSE [status |-> 200, error |-> ""]

\* the response of ValidateSession, lines 131-164
ValidateOutcome(sessionId, userId, dbOk) ==
    IF sessionId = EmptyId THEN [status |-> 401, error |-> "Invalid session"]
    ELSE IF userId = EmptyId THEN [status |-> 401, error |-> "Invalid session"]
    ELSE LET r == SessionServiceGetById(sessionId, dbOk)
         IN  IF r.err THEN [status |-> 404, error |-> "Session not found"]
             ELSE IF r.session.user_id # userId
                  THEN [status |-> 401, error |-> "Invalid session"]
             ELSE IF IsSessionExpired(r.session.expires_at)
                  THEN [status |-> 401, error |-> "Session expired"]
             ELSE [status |-> 200, error |-> ""]

\* ValidateSession deleting the row it finds expired
ValidateSessionPurgesExpired(sessionId, userId, dbOk) ==
    /\ Ready
    /\ LET o == ValidateOutcome(sessionId, userId, dbOk)
       IN  /\ last' = Response("validate", o.status, o.error, sessionId,
                               userId, "", "", dbOk, FALSE)
           /\ sessions' = IF o.error = "Session expired"
                          THEN {r \in sessions : r.id # sessionId}
                          ELSE sessions
    /\ UNCHANGED <<users, now, pending, tokens, returned, created, deleted, removed, gateVars>>

\* ValidateSession, lines 128-165
ValidateSession(sessionId, userId, dbOk) ==
    /\ Ready
    /\ LET o == ValidateOutcome(sessionId, userId, dbOk)
       IN  last' = Response("validate", o.status, o.error, sessionId, userId,
                            "", "", dbOk, FALSE)
    /\ UNCHANGED <<users, sessions, now, pending, tokens, returned, created, deleted, removed, gateVars>>

\* a user is deleted through the user repository
DeleteUser(id) ==
    /\ Ready
    /\ id \in Ids(users)
    /\ LET r == UserRepositoryDelete(id)
       IN  /\ users' = r.users
           /\ sessions' = r.sessions
    /\ removed' = removed \cup {id}
    /\ UNCHANGED <<now, pending, last, tokens, returned, created, deleted, gateVars>>

\* the Session Validator, JwtAuthMiddleware: bearer token, Token Codec.Verify,
\* Authenticator.ValidateSession; every failure ends the request with 401
SessionValidator(token, dbOk) ==
    IF token.kind = "none"
    THEN [ok |-> FALSE, error |-> "Unauthorized"]
    ELSE IF token.kind # "signed"
    THEN [ok |-> FALSE, error |-> "SignatureInvalid"]
    ELSE LET o == ValidateOutcome(token.session_id, token.user_id, dbOk)
         IN  IF o.status = 200 THEN [ok |-> TRUE, error |-> ""]
             ELSE [ok |-> FALSE, error |-> o.error]

\* the handler the request is at: each one runs when the one before it has
\* called ctx.Next(), and none after a response was written
Stage ==
    IF req.at \in 1..Len(ProtectedChain) /\ req.status = 0
    THEN ProtectedChain[req.at] ELSE "none"

\* a request arrives at a /me route
ProtectedRequest(token, action) ==
    /\ req = NoRequest
    /\ req' = [at |-> 1, token |-> token, action |-> action,
               locals |-> NoLocals, ran |-> <<>>, status |-> 0]
    /\ UNCHANGED <<users, sessions, now, pending, last, tokens, returned,
                   created, deleted, removed, rules, decision>>

\* the session validator: attach (userId, sessionId) and go on, or 401
JwtAuthMiddleware(dbOk) ==
    /\ Stage = "JwtAuthMiddleware"
    /\ LET v == SessionValidator(req.token, dbOk)
       IN  req' = IF v.ok
                  THEN [req EXCEPT !.at = @ + 1,
                                   !.ran = Append(@, "JwtAuthMiddleware"),
                                   !.locals =
                                       [user_id |-> req.token.user_id,
                                        session_id |-> req.token.session_id]]
                  ELSE [req EXCEPT !.status = 401,
                                   !.ran = Append(@, "JwtAuthMiddleware")]
    /\ UNCHANGED <<users, sessions, now, pending, last, tokens, returned,
                   created, deleted, removed, rules, decision>>

\* the RBAC gate: Authorize for the user of the request context, or 403
RbacMiddleware ==
    /\ Stage = "rbacMiddleware"
    /\ LET d == Authorize(req.locals.user_id, req.action)
       IN  /\ decision' = [principal |-> req.locals.user_id,
                           action |-> req.action,
                           allow |-> d.allow, reason |-> d.reason]
           /\ req' = IF d.allow
                     THEN [req EXCEPT !.at = @ + 1,
                                      !.ran = Append(@, "rbacMiddleware")]
                     ELSE [req EXCEPT !.status = 403,
                                      !.ran = Append(@, "rbacMiddleware")]
    /\ UNCHANGED <<users, sessions, now, pending, last, tokens, returned,
                   created, deleted, removed, rules>>

\* the route's handler, a method of MeController
Handler ==
    /\ Stage = "handler"
    /\ req' = [req EXCEPT !.status = 200, !.ran = Append(@, "handler")]
    /\ UNCHANGED <<users, sessions, now, pending, last, tokens, returned,
                   created, deleted, removed, rules, decision>>

\* the client reads the response of the protected route
ProtectedResponseSent ==
    /\ req.status # 0
    /\ req' = NoRequest
    /\ UNCHANGED <<users, sessions, now, pending, last, tokens, returned,
                   created, deleted, removed, rules, decision>>

\* the Authorization header: a token a Login returned, a token with the same
\* content that the server did not sign, or none
RequestTokens ==
    {[kind |-> k, user_id |-> t.user_id, session_id |-> t.session_id] :
        k \in {"signed", "forged"}, t \in returned} \cup {NoToken}

\* ctx.Locals("session_id"): session ids are unguessable and leave the server
\* only in the 200 response of Login, so a request carries one of those, one
\* that no login generated, or none
RequestSessionIds ==
    {t.session_id : t \in returned} \cup {UnknownSessionId, EmptyId}
\* ctx.Locals("user_id"): the id of a user, registered or since deleted, or
\* none
RequestUserIds == Ids(users) \cup removed \cup {EmptyId}

\* RegisterRequest.Email and .Password.  The code treats names and passwords
\* only by equality, so which name and which password the first registration
\* ever made uses makes no difference: it uses "a" and "p".
RegisterEmails ==
    (IF users = {} /\ removed = {} THEN {"a"} ELSE Names) \cup {EmptyEmail}
RegisterPasswords == IF users = {} /\ removed = {} THEN {"p"} ELSE Passwords

Next ==
    \/ ResponseSent
    \/ Tick
    \/ \E parseOk \in BOOLEAN, ident \in Names, pw \in Passwords :
          LoginAuthenticate(parseOk, ident, pw)
    \/ \E p \in pending, dbOk \in BOOLEAN : LoginCreateSession(p, dbOk)
    \/ \E sid \in RequestSessionIds \ {EmptyId},
          uid \in RequestUserIds \ {EmptyId}, dbOk \in BOOLEAN :
          Logout(sid, uid, dbOk)
    \/ \E parseOk \in BOOLEAN, email \in RegisterEmails, uname \in Names,
          pw \in RegisterPasswords : Register(parseOk, email, uname, pw)
    \/ \E sid \in RequestSessionIds, uid \in RequestUserIds,
          dbOk \in BOOLEAN : ValidateSession(sid, uid, dbOk)

Spec == Init /\ [][Next]_vars

\* the program together with the deletion of users
NextDeletion ==
    \/ Next
    \/ \E id \in UserIds : DeleteUser(id)

DeletionSpec == Init /\ [][NextDeletion]_vars

\* registrations and logins when the session id generator may repeat the id
\* of a persisted session
NextCollision ==
    \/ ResponseSent
    \/ Tick
    \/ \E parseOk \in BOOLEAN, email \in RegisterEmails, uname \in Names,
          pw \in RegisterPasswords : Register(parseOk, email, uname, pw)
    \/ \E parseOk \in BOOLEAN, ident \in Names, pw \in Passwords :
          LoginAuthenticate(parseOk, ident, pw)
    \/ \E ident \in Names, pw \in Passwords, sid \in SessionIds :
          LoginAuthenticateCollides(ident, pw, sid)
    \/ \E p \in pending, dbOk \in BOOLEAN : LoginCreateSession(p, dbOk)

CollisionSpec == Init /\ [][NextCollision]_vars

\* ------------------------------------------------- the RBAC resolver alone
\* two registered users, the principals
LoadedUsers ==
    {[id |-> 1, email |-> "a", username |-> "a", password |-> Hash("p")],
     [id |-> 2, email |-> "b", username |-> "b", password |-> Hash("q")]}

Principals == Ids(LoadedUsers)

\* table group: one group of each role
Groups == {[id |-> 1, role |-> RoleAdmin], [id |-> 2, role |-> RoleUser],
           [id |-> 3, role |-> RoleGuest]}

\* table user_group.  Authorize reads only the rows of the principal it is
\* asked about, so the other user's rows are kept few: user 2 is at most a
\* member of the admin group.
Memberships ==
    {m \in SUBSET (Principals \X Ids(Groups)) :
        \A e \in m : e[1] # 1 => e[2] \in {g.id : g \in {x \in Groups :
                                                     x.role = RoleAdmin}}}

\* the entries recorded directly on the resource
AclSets ==
    {a \in SUBSET [principal : Principals, action : Actions,
                   effect : {"allow", "deny"}] :
        Cardinality(a) <= MaxAclEntries}

\* the roles of groups on the space that owns the resource, one per group
SpaceRoleSets ==
    {a \in SUBSET [group_id : Ids(Groups), role : RoleType] :
        /\ Cardinality(a) <= MaxSpaceRoles
        /\ \A e, f \in a : e.group_id = f.group_id => e = f}

\* the groups associated with the resource; only user groups are asked
AssocSets == SUBSET {g.id : g \in {x \in Groups : x.role = RoleUser}}

RuleSets ==
    [groups : {Groups}, user_group : Memberships, acl : AclSets,
     spaceRoles : SpaceRoleSets, assoc : AssocSets, exists : BOOLEAN]

RbacInit ==
    /\ users = LoadedUsers
    /\ sessions = {}
    /\ now = 0
    /\ pending = {}
    /\ last = NoResponse
    /\ tokens = {}
    /\ returned = {}
    /\ created = {}
    /\ deleted = {}
    /\ removed = {}
    /\ rules \in RuleSets
    /\ decision = NoDecision
    /\ req = NoRequest

RbacNext == \E principal \in Principals, action \in Actions :
                Authorizes(principal, action)

RbacSpec == RbacInit /\ [][RbacNext]_vars

\* ------------------------------------------------------ protected routes
\* the rows two Logins at clock 0 insert, one for each user
LoadedSessions ==
    {[id |-> u.id, user_id |-> u.id, expires_at |-> Expire, built_at |-> 0,
      created_at |-> 0] : u \in LoadedUsers}

\* the rules under which the protected routes are run: the gate is passed
\* or not through the role defaults of the user's groups
ProtectedRuleSets ==
    {r \in RuleSets : r.acl = {} /\ r.spaceRoles = {} /\ r.exists}

\* two users are registered and each has logged in once
ProtectedInit ==
    /\ users = LoadedUsers
    /\ sessions = LoadedSessions
    /\ now = 0
    /\ pending = {}
    /\ last = NoResponse
    /\ tokens = {[user_id |-> r.user_id, session_id |-> r.id] :
                    r \in LoadedSessions}
    /\ returned = tokens
    /\ created = Ids(LoadedSessions)
    /\ deleted = {}
    /\ removed = {}
    /\ rules \in ProtectedRuleSets
    /\ decision = NoDecision
    /\ req = NoRequest

\* requests to the /me routes, while the clock runs and sessions are logged
\* out
ProtectedNext ==
    \/ \E token \in RequestTokens, action \in Actions :
          ProtectedRequest(token, action)
    \/ \E dbOk \in BOOLEAN : JwtAuthMiddleware(dbOk)
    \/ RbacMiddleware
    \/ Handler
    \/ ProtectedResponseSent
    \/ Tick
    \/ \E sid \in RequestSessionIds \ {EmptyId},
          uid \in RequestUserIds \ {EmptyId}, dbOk \in BOOLEAN :
          Logout(sid, uid, dbOk)
    \/ ResponseSent

ProtectedSpec == ProtectedInit /\ [][ProtectedNext]_vars

\* ------------------------------------------------------------ properties
\* a handler writes its response in this step
Responds(op) == last = NoResponse /\ last'.op = op

\* C1: revocation is immediate and permanent.  Once Delete for a session id
\* has completed, no row with that id exists again, and every ValidateSession
\* carrying that session id and a user id answers 404 "Session not found";
\* none answers 200.
C1_RevokedStaysNotFound ==
    /\ deleted \cap Ids(sessions) = {}
    /\ (last.op = "validate" /\ last.sid \in deleted) =>
          /\ last.status # 200
          /\ last.uid # EmptyId =>
                (last.status = 404 /\ last.error = "Session not found")

\* a session was created and logged out, and its owner's token is validated
\* again at a time the session would still be unexpired
C1_Witness ==
    /\ last.op = "validate"
    /\ last.sid \in deleted \cap created
    /\ last.status = 404
    /\ last.dbOk
    /\ \E t \in returned : /\ t.session_id = last.sid
                           /\ t.user_id = last.uid
    /\ now = 0

\* C2: ValidateSession answers 200 only if the session table holds a row with
\* the request's session id, owned by the request's user id, and not expired;
\* in every other case the response is a failure.
C2_SuccessOnlyForLiveOwnedSession ==
    last.op = "validate" =>
        IF /\ \E r \in sessions : /\ r.id = last.sid
                                  /\ r.user_id = last.uid
                                  /\ now < r.expires_at
        THEN last.status \in {200, 404}
        ELSE last.status \in {401, 404}

\* a request for a live session under another user's id is refused
C2_Witness ==
    /\ last.op = "validate"
    /\ last.status = 401
    /\ last.error = "Invalid session"
    /\ \E r \in sessions : /\ r.id = last.sid
                           /\ r.user_id # last.uid
                           /\ last.uid \in Ids(users)
                           /\ now < r.expires_at

\* C3: a persisted session whose expires_at is earlier than the clock is
\* never validated: its owner gets 401 "Session expired" whenever the lookup
\* returns the row.
C3_ExpiredRowIsRefused ==
    (/\ last.op = "validate"
     /\ \E r \in sessions : /\ r.id = last.sid
                            /\ r.user_id = last.uid
                            /\ r.expires_at < now) =>
        /\ last.status # 200
        /\ last.dbOk => (last.status = 401 /\ last.error = "Session expired")

C3_Witness ==
    /\ last.op = "validate"
    /\ last.dbOk
    /\ last.error = "Session expired"
    /\ \E r \in sessions : /\ r.id = last.sid
                           /\ r.user_id = last.uid
                           /\ r.expires_at < now

\* the user named by id holds the credentials (ident, pw)
HoldsCredentials(id, ident, pw) ==
    \E u \in users : /\ u.id = id
                     /\ u.email = ident \/ u.username = ident
                     /\ u.password = Hash(pw)

\* C4: a Login whose credential check fails answers 401 and leaves the
\* session table as it was (no row for any user, no token, no request left in
\* flight); a Login goes on to build a session only with credentials that
\* passed the check.
C4_FailedLoginCreatesNothing ==
    [][/\ (Responds("login") /\ last'.status = 401) =>
             /\ sessions' = sessions
             /\ tokens' = tokens
             /\ pending' = pending
             /\ last'.error = "Invalid credentials"
       /\ \A p \in pending' \ pending :
             HoldsCredentials(p.loginResponse.UserId, p.ident, p.pw)]_vars

\* a wrong password for an existing identifier, and an unknown identifier
C4_Witness ==
    /\ last.op = "login"
    /\ last.status = 401
    /\ sessions # {}
    /\ \E u \in users : /\ u.email = last.ident
                        /\ u.password # Hash(last.pw)
    /\ \E n \in Names : \A u \in users : u.email # n /\ u.username # n

\* C5 as stated: every token that has been issued references a session whose
\* Create succeeded.
C5_IssuedTokensArePersisted ==
    \A t \in tokens : t.session_id \in created

\* C5 amended: every token returned to a caller references a session whose
\* Create succeeded; when Create fails after a successful credential check,
\* Login answers 500 and the token issued for that session id is never
\* returned, and the session id has no row.
C5_ReturnedTokensArePersisted ==
    /\ \A t \in returned : t.session_id \in created
    /\ (last.op = "login" /\ last.status = 500) =>
          /\ last.error = "Internal server error"
          /\ \A t \in returned : t.session_id # last.sid
          /\ last.sid \notin created
          /\ last.sid \notin Ids(sessions)

\* Create failed after the credential check passed and the token was signed
C5_Witness ==
    /\ last.op = "login"
    /\ last.status = 500
    /\ ~last.dbOk
    /\ HoldsCredentials(last.uid, last.ident, last.pw)
    /\ [user_id |-> last.uid, session_id |-> last.sid] \in tokens

\* C6: after a successful Login the returned SessionId resolves through
\* GetById to a persisted session whose user_id is the returned UserId, and
\* that user holds the credentials that were presented.
C6_LoginResponseResolves ==
    (last.op = "login" /\ last.status = 200) =>
        LET r == SessionServiceGetById(last.sid, TRUE)
        IN  /\ ~r.err
            /\ r.session.user_id = last.uid
            /\ HoldsCredentials(last.uid, last.ident, last.pw)

\* a successful login with an identifier that is one user's username and
\* another user's e-mail
C6_Witness ==
    /\ last.op = "login"
    /\ last.status = 200
    /\ \E u, v \in users : /\ u.id = last.uid
                           /\ v.id # last.uid
                           /\ u.username = last.ident
                           /\ v.email = last.ident
                           /\ v.password # u.password
    /\ Cardinality(sessions) = 2

\* C7: every session row has expires_at = created_at + Expire, less the time
\* that passed between the clock read of line 49 and the insert.
C7_ExpiresAtIsCreatedAtPlusTtl ==
    \A r \in sessions :
        /\ r.built_at <= r.created_at
        /\ r.expires_at = r.created_at + Expire - (r.created_at - r.built_at)
        /\ r.created_at <= now

\* one row inserted at the clock value its expiry was computed from, one later
C7_Witness ==
    /\ \E r \in sessions : r.created_at = r.built_at
                           /\ r.expires_at = r.created_at + Expire
    /\ \E r \in sessions : r.created_at > r.built_at

\* C8: there is no single-session-per-user restriction.  A Login that
\* succeeds adds one row under a session id no row had, for the user it
\* answers with, and leaves every earlier row in place; session ids are
\* unique among the rows; and every unexpired row validates for its owner
\* whatever other rows that user has.  So two Logins of one user that
\* succeed, in any interleaving, leave two distinct rows that validate at the
\* same time.
C8_ConcurrentLoginsCoexist ==
    /\ [](\A r1, r2 \in sessions : r1.id = r2.id => r1 = r2)
    /\ [](\A r \in sessions :
             now < r.expires_at =>
                 ValidateOutcome(r.id, r.user_id, TRUE).status = 200)
    /\ [][(Responds("login") /\ last'.status = 200) =>
             /\ last'.sid \notin Ids(sessions)
             /\ sessions \subseteq sessions'
             /\ \E r \in sessions' \ sessions :
                   /\ r.id = last'.sid
                   /\ r.user_id = last'.uid
                   /\ sessions' = sessions \cup {r}]_vars

\* two Logins of one user overlapped: the one that authenticated first
\* (session id 1) created its row after the other had created its own, and
\* both rows validate
C8_Witness ==
    /\ last.op = "login"
    /\ last.status = 200
    /\ last.sid = 1
    /\ \E r1, r2 \in sessions :
          /\ r1.id = 1
          /\ r2.id = 2
          /\ r1.user_id = r2.user_id
          /\ r2.built_at >= r1.built_at
          /\ r2.created_at <= r1.created_at
          /\ ValidateOutcome(r1.id, r1.user_id, TRUE).status = 200
          /\ ValidateOutcome(r2.id, r2.user_id, TRUE).status = 200

\* C9: Logout is idempotent.  Whenever the store carries out the Delete,
\* Logout answers 200 and the session table is the earlier one without the
\* row of that session id; for a session id that has no row (a second
\* Logout) that is the unchanged table.
C9_LogoutIsIdempotent ==
    [][Responds("logout") =>
          /\ last'.dbOk =>
                /\ last'.status = 200
                /\ sessions' = {r \in sessions : r.id # last'.sid}
          /\ last'.sid \notin Ids(sessions) => sessions' = sessions]_vars

\* a second Logout of a session that an earlier Logout deleted, while
\* another session is persisted
C9_Witness ==
    /\ last.op = "logout"
    /\ last.status = 200
    /\ last.prior
    /\ last.sid \in created
    /\ sessions # {}

\* C10: no two user rows share an e-mail; a Register whose e-mail is already
\* in use answers 409 and leaves the user rows unchanged.
C10_EmailsAreUnique ==
    /\ [](\A u, v \in users : u.email = v.email => u = v)
    /\ [][(Responds("register") /\ last'.ident \in {u.email : u \in users}) =>
             /\ last'.status = 409
             /\ last'.error = "User already exists"
             /\ users' = users]_vars

\* a second Register with the e-mail of the only user
C10_Witness ==
    /\ last.op = "register"
    /\ last.status = 409
    /\ Cardinality(users) = 1
    /\ \E u \in users : u.email = last.ident /\ u.password # Hash(last.pw)

\* C11 as stated: Register answers 409 only for a duplicate identifier, and a
\* registration with a malformed field (an empty e-mail) answers 400, never
\* 409.
C11_RegisterDistinguishesFailures ==
    last.op = "register" =>
        /\ last.ident = EmptyEmail => last.status = 400
        /\ last.status = 409 => last.ident # EmptyEmail

\* what the caller receives of a response: the status and the body
Outward(r) == [status |-> r.status, error |-> r.error,
               sid |-> r.sid, uid |-> r.uid]

\* C12: a Login whose identifier matches no user and a Login whose
\* identifier matches a user with another password get the same status and
\* the same body, 401 "Invalid credentials" with no session id and no user
\* id, so the answer does not tell whether the user exists.
C12_LoginFailuresAreIdentical ==
    [][(Responds("login") /\ pending' = pending /\ last'.status # 400) =>
          LET q == GetByEmailOrUsername(last'.ident)
              generic == [status |-> 401, error |-> "Invalid credentials",
                          sid |-> EmptyId, uid |-> EmptyId]
          IN  /\ q.err => Outward(last') = generic
              /\ (~q.err /\ q.user.password # Hash(last'.pw)) =>
                     Outward(last') = generic]_vars

\* a Login with an unknown identifier and a password that a registered user
\* holds: the request differs from a valid one only in whether the user
\* exists
C12_Witness ==
    /\ last.op = "login"
    /\ last.status = 401
    /\ GetByEmailOrUsername(last.ident).err
    /\ \E u \in users : u.password = Hash(last.pw)

\* C13: every session row is owned by an existing user; a session of a
\* deleted user has no row, and no ValidateSession carrying a deleted user's
\* id answers 200.
C13_SessionsBelongToUsers ==
    /\ \A r \in sessions : r.user_id \in Ids(users) /\ r.user_id \notin removed
    /\ (last.op = "validate" /\ last.uid \in removed) => last.status # 200

\* the token of a session that was created for a user since deleted is
\* validated, with the store answering, before the session would have expired
C13_Witness ==
    /\ last.op = "validate"
    /\ last.uid \in removed
    /\ [user_id |-> last.uid, session_id |-> last.sid] \in returned
    /\ last.sid \notin deleted
    /\ last.dbOk
    /\ last.status = 404
    /\ now = 0

\* the request answered by last named a session id whose row is persisted
\* with expires_at <= now, and the lookup returned it
ValidatedExpiredRow ==
    /\ last.op = "validate"
    /\ last.uid # EmptyId
    /\ last.dbOk
    /\ \E r \in sessions : r.id = last.sid /\ r.expires_at <= now

\* C17 as stated: ValidateSession on a persisted row with expires_at <= now
\* gives the outcome it gives for a session id that has no row.
C17_ExpiredIsNotFound ==
    ValidatedExpiredRow =>
        [status |-> last.status, error |-> last.error]
            = ValidateOutcome(UnknownSessionId, last.uid, TRUE)

\* C17 amended: a persisted row with expires_at <= now is refused, but not
\* as an absent one: its owner gets 401 "Session expired", another user id
\* gets 401 "Invalid session", while a session id that has no row gets 404
\* "Session not found".
C17_ExpiredIsRefusedNotAbsent ==
    ValidatedExpiredRow =>
        /\ last.status = 401
        /\ \A r \in sessions :
              r.id = last.sid =>
                  last.error = IF r.user_id = last.uid
                               THEN "Session expired" ELSE "Invalid session"
        /\ ValidateOutcome(UnknownSessionId, last.uid, TRUE)
              = [status |-> 404, error |-> "Session not found"]

\* the owner validates a session at the very clock value of its expires_at
C17_Witness ==
    /\ ValidatedExpiredRow
    /\ last.error = "Session expired"
    /\ \E r \in sessions : /\ r.id = last.sid
                           /\ r.user_id = last.uid
                           /\ r.expires_at = now

\* C18: ValidateSession tests in a fixed order.  For a request with a
\* session id and a user id: no row (or a failed lookup) gives 404 "Session
\* not found"; otherwise a row of another user gives 401 "Invalid session",
\* expired or not; otherwise an expired row gives 401 "Session expired";
\* otherwise 200.
C18_ChecksRunInOrder ==
    (last.op = "validate" /\ last.sid # EmptyId /\ last.uid # EmptyId) =>
        LET found == {r \in sessions : r.id = last.sid}
            answer == <<last.status, last.error>>
        IN  IF found = {} \/ ~last.dbOk
            THEN answer = <<404, "Session not found">>
            ELSE \A r \in found :
                    IF r.user_id # last.uid
                    THEN answer = <<401, "Invalid session">>
                    ELSE IF now >= r.expires_at
                         THEN answer = <<401, "Session expired">>
                         ELSE answer = <<200, "">>

\* a session that is expired and owned by another user than the one claimed
C18_Witness ==
    /\ last.op = "validate"
    /\ last.dbOk
    /\ last.error = "Invalid session"
    /\ last.uid \in Ids(users)
    /\ \E r \in sessions : /\ r.id = last.sid
                           /\ r.user_id # last.uid
                           /\ r.expires_at < now

\* C20: a Logout removes no row but the one of the request's session id:
\* every other row, of the same user or of another, is still there with the
\* same fields and validates exactly as before, and the user rows are
\* untouched.
C20_LogoutRemovesOnlyItsSession ==
    [][Responds("logout") =>
          /\ users' = users
          /\ sessions' \subseteq sessions
          /\ \A r \in sessions :
                r.id # last'.sid =>
                    /\ r \in sessions'
                    /\ \A uid \in RequestUserIds :
                          ValidateOutcome(r.id, uid, TRUE)'
                              = ValidateOutcome(r.id, uid, TRUE)]_vars

\* one of a user's two live sessions was logged out; the other one is still
\* persisted and validates
C20_Witness ==
    /\ last.op = "logout"
    /\ last.status = 200
    /\ ~last.prior
    /\ last.sid \in deleted
    /\ \E r \in sessions :
          /\ [user_id |-> r.user_id, session_id |-> last.sid] \in returned
          /\ ValidateOutcome(r.id, r.user_id, TRUE).status = 200

\* C19 as stated: a collision of the generated session id with a persisted
\* row is retried with a fresh id and not surfaced.  With the store
\* answering and the user present, a Login whose session id is the id of a
\* persisted row has answered 200 (the row is its own), never 500.
C19_CollisionIsNotSurfaced ==
    (/\ last.op = "login"
     /\ last.dbOk
     /\ last.uid \in Ids(users)
     /\ last.sid \in Ids(sessions)) => last.status = 200

\* the rules hold an entry of this effect on the resource for the question
\* that decision answers
DirectEntry(effect) ==
    \E e \in rules.acl : /\ e.principal = decision.principal
                         /\ e.action = decision.action
                         /\ e.effect = effect

\* the groups the asked principal is a member of, read from the tables
AskedGroups ==
    {g \in rules.groups : <<decision.principal, g.id>> \in rules.user_group}

\* C15: when the resource carries an explicit deny for (principal, action),
\* Authorize answers allow = FALSE, whatever the principal's groups, their
\* roles on the space and their role defaults would allow.
C15_ExplicitDenyOverrides ==
    (decision # NoDecision /\ DirectEntry("deny")) => ~decision.allow

\* the denied principal is a member of the admin group and of another group,
\* and one of its groups is admin on the space of the existing resource
C15_Witness ==
    /\ decision # NoDecision
    /\ DirectEntry("deny")
    /\ rules.exists
    /\ Cardinality(AskedGroups) >= 2
    /\ \E g \in AskedGroups : g.role = RoleAdmin
    /\ \E e \in rules.spaceRoles : /\ e.group_id \in Ids(AskedGroups)
                                    /\ e.role = RoleAdmin

\* C16: default deny.  When no entry on the resource names (principal,
\* action) and the principal is a member of no group, so that no role on the
\* space and no role default applies to it, Authorize answers allow = FALSE.
C16_DefaultDeny ==
    (/\ decision # NoDecision
     /\ ~DirectEntry("allow")
     /\ ~DirectEntry("deny")
     /\ AskedGroups = {}) => ~decision.allow

\* a principal without any rule asks to read an existing resource on which
\* another principal has an allow entry and an admin membership
C16_Witness ==
    /\ decision # NoDecision
    /\ decision.action = "read"
    /\ decision.reason = "default"
    /\ rules.exists
    /\ AskedGroups = {}
    /\ \E e \in rules.acl : e.principal # decision.principal /\ e.effect = "allow"
    /\ \E m \in rules.user_group : m[1] # decision.principal
    /\ rules.spaceRoles # {}

\* the validator has run and attached nothing: it rejected the request
ValidatorRejected ==
    /\ \E i \in 1..Len(req.ran) : req.ran[i] = "JwtAuthMiddleware"
    /\ req.locals = NoLocals

\* C14: on a protected route the session validator runs first, then the RBAC
\* gate, then the handler: what has run is always a prefix of that order.
\* The handler has run only for a request to which the validator attached
\* the (userId, sessionId) of its signed token, and the validator attaches
\* them only for a session that validates at that moment.  A request the
\* validator rejects is answered with 401 after the validator alone has run.
C14_ValidatorThenGateThenHandler ==
    /\ [](/\ Len(req.ran) <= 3
          /\ req.ran = SubSeq(<<"JwtAuthMiddleware", "rbacMiddleware",
                                "handler">>, 1, Len(req.ran))
          /\ (\E i \in 1..Len(req.ran) : req.ran[i] = "handler") =>
                /\ req.token.kind = "signed"
                /\ req.locals = [user_id |-> req.token.user_id,
                                 session_id |-> req.token.session_id]
          /\ (req.ran # <<>> /\ req.locals = NoLocals) =>
                /\ req.status = 401
                /\ req.ran = <<"JwtAuthMiddleware">>)
    /\ [][(req.locals = NoLocals /\ req'.locals # NoLocals) =>
             /\ req.token.kind = "signed"
             /\ ValidateOutcome(req.token.session_id, req.token.user_id,
                                TRUE).status = 200]_vars

\* the token of a session that has been logged out is rejected with 401
\* before the gate, after an earlier request had passed the validator and
\* the gate
C14_Witness ==
    /\ ValidatorRejected
    /\ req.status = 401
    /\ req.token.kind = "signed"
    /\ req.token.session_id \in deleted
    /\ decision.allow

\* C21: ValidateSession is read-only.  Whatever it answers (200, 404
\* "Session not found", 401 "Invalid session", 401 "Session expired"), the
\* step that produces the answer leaves the session table and the user table
\* as they were: no expired row is deleted and no expires_at is moved.
C21_ValidateSessionIsReadOnly ==
    [][Responds("validate") => /\ sessions' = sessions
                               /\ users' = users]_vars

\* the owner has validated a session more than a tick after its expiry, was
\* answered "Session expired", and the row is still in the table, beside a
\* live one
C21_Witness ==
    /\ last.op = "validate"
    /\ last.status = 401
    /\ last.error = "Session expired"
    /\ \E r \in sessions : /\ r.id = last.sid
                           /\ r.user_id = last.uid
                           /\ r.expires_at < now
    /\ \E r \in sessions : r.expires_at > now

\* C22: a session row is immutable between its creation and its deletion.
\* In every step of Login, Logout, Register and ValidateSession a row that
\* stays in the table keeps its user_id and its expires_at: there is no
\* sliding renewal.  So the owner of a row that is still there is answered
\* 200 exactly while the clock is below the expiry computed when the row
\* was built (line 49), and "Session expired" from that value on.
C22_SessionRowsAreImmutable ==
    /\ [][\A r \in sessions : \A q \in sessions' :
              q.id = r.id => /\ q.user_id = r.user_id
                             /\ q.expires_at = r.expires_at]_vars
    /\ [][(Responds("validate") /\ last'.dbOk) =>
             \A r \in sessions :
                 (r.id = last'.sid /\ r.user_id = last'.uid) =>
                     /\ r.expires_at = r.built_at + Expire
                     /\ IF now < r.built_at + Expire
                        THEN last'.status = 200
                        ELSE /\ last'.status = 401
                             /\ last'.error = "Session expired"]_vars

\* two users are registered, one session has been logged out, and the owner
\* of the other, never logged out, is answered "Session expired" at the
\* expiry the row was built with
C22_Witness ==
    /\ Cardinality(users) = 2
    /\ deleted # {}
    /\ last.op = "validate"
    /\ last.error = "Session expired"
    /\ \E r \in sessions : /\ r.id = last.sid
                           /\ r.user_id = last.uid
                           /\ r.id \notin deleted
                           /\ r.expires_at = r.built_at + Expire
                           /\ r.expires_at <= now

====
